---- MODULE Spec2Model ----
(***************************************************************************)
(* The like / karma subsystem of the community feed backend.               *)
(*                                                                         *)
(* The committed database is the pair (items, likes).  A like request is   *)
(* a process that walks through PostViewSet.like / CommentViewSet.like     *)
(* and toggle_like one database statement at a time; the statements of     *)
(* toggle_like run inside one transaction (@transaction.atomic), so what   *)
(* they write stays private to the request (fields ins, cnt) until the     *)
(* function returns and the transaction commits.                           *)
(*                                                                         *)
(* Storage semantics the code relies on:                                   *)
(*  - the unique constraint of Like makes an INSERT of a key that is       *)
(*    already committed fail with IntegrityError, and makes it wait while  *)
(*    another open transaction holds an uncommitted row with that key;     *)
(*  - an UPDATE or DELETE of a row waits while another open transaction    *)
(*    holds an uncommitted UPDATE of that row;                             *)
(*  - Model.save() runs under transaction.mark_for_rollback_on_error, so   *)
(*    an IntegrityError raised by Like.objects.create inside the atomic    *)
(*    block marks the transaction as needing rollback: every later query   *)
(*    in the block raises TransactionManagementError ("You can't execute   *)
(*    queries until the end of the 'atomic' block");                       *)
(*  - save(update_fields=...) raises DatabaseError when the UPDATE         *)
(*    matches no row.                                                      *)
(***************************************************************************)
EXTENDS Integers, Sequences, FiniteSets, TLC

\* ---------------------------------------------------------------- bounds
NumUsers == 2
MaxItemId == 1
MaxProcs == 2
MaxReq == 3

MaxSlack == 1
MaxEvents == 2
MaxQueries == 1

\* ------------------------------------------------------ program constants
POST_KARMA == 5
COMMENT_KARMA == 1
\* timedelta(hours=24), in minutes
DAY == 1440
\* get_top_users_24h(limit=5)
DEFAULT_LIMIT == 5

Users == 1..NumUsers
Anon == 0
ItemIds == 1..MaxItemId
Kinds == {"post", "comment"}
Items == [kind : Kinds, id : ItemIds]
Procs == 1..MaxProcs

VARIABLES
    items,   \* committed Post / Comment rows: Items -> [exists, author, like_count]
    likes,   \* committed Like rows
    nextId,  \* next primary key of the Like table
    now,     \* the clock (timezone.now()), in minutes
    procs,   \* in-flight like requests: Procs -> request record
    log      \* responses already sent, oldest first

vars == <<items, likes, nextId, now, procs, log>>

NoRow == [id |-> 0]
NoCnt == -1000
NoItem == [kind |-> "none", id |-> 0]
IdleProc == [pc |-> "idle", user |-> Anon, item |-> NoItem, author |-> Anon,
             like_count |-> 0, ins |-> NoRow, cnt |-> NoCnt, seen |-> 0]

\* a toggle_like that awards the post value whatever the target is
KarmaAlwaysPost(it) == POST_KARMA

\* karma_value = 5 if isinstance(content_object, Post) else 1
KarmaValue(it) == IF it.kind = "post" THEN POST_KARMA ELSE COMMENT_KARMA

\* rows of the Like table with the key (user, content_type, object_id)
RowsOf(u, it) ==
    {r \in likes : r.user = u /\ r.content_type = it.kind /\ r.object_id = it.id}

\* rows of the Like table that reference an item
RowsOn(it) ==
    {r \in likes : r.content_type = it.kind /\ r.object_id = it.id}

\* the Like table without its unique constraint: no INSERT is ever rejected
NoUniqueConstraint(u, it) == FALSE

\* a unique constraint on (user, object_id) only, content_type left out
UniqueIgnoringKind(u, it) ==
    \E r \in likes : r.user = u /\ r.object_id = it.id

\* UniqueConstraint(fields=['user', 'content_type', 'object_id']):
\* the INSERT is rejected when a committed row with the key exists
UniqueViolation(u, it) == RowsOf(u, it) # {}

\* an open transaction of another request holds an uncommitted row with the key
KeyHeld(p, u, it) ==
    \E q \in Procs \ {p} :
        /\ procs[q].pc \in {"inserted", "updated"}
        /\ procs[q].user = u
        /\ procs[q].item = it

\* an open transaction of another request holds an uncommitted UPDATE of the row
RowLocked(p, it) ==
    \E q \in Procs \ {p} : procs[q].pc = "updated" /\ procs[q].item = it

InFlight == {p \in Procs : procs[p].pc # "idle"}

\* User.total_karma: Sum('karma_value') over Like rows with content_author = u, or 0
RECURSIVE SumKarma(_)
SumKarma(S) ==
    IF S = {} THEN 0
    ELSE LET r == CHOOSE x \in S : TRUE IN r.karma_value + SumKarma(S \ {r})

total_karma(u) == SumKarma({r \in likes : r.content_author = u})

\* ------------------------------------------------------------------ Init
\* post n is written by user 1, comment n (a comment on post n) by the last user
InitAuthor(it) == IF it.kind = "post" THEN 1 ELSE NumUsers

\* every item exists and has like_count = 0 (the field's default)
InitItems ==
    [it \in Items |-> [exists |-> TRUE, author |-> InitAuthor(it), like_count |-> 0]]

Init ==
    /\ items = InitItems
    /\ likes = {}
    /\ nextId = 1
    /\ now = 0
    /\ procs = [p \in Procs |-> IdleProc]
    /\ log = <<>>

\* --------------------------------------------------------------- responses
Response(op, u, it, status, err, liked, delta, count, seen) ==
    [op |-> op, user |-> u, item |-> it, status |-> status, err |-> err,
     is_liked |-> liked, karma_change |-> delta, like_count |-> count,
     seen |-> seen]

Budget == Len(log) + Cardinality(InFlight) < MaxReq

\* ------------------------------------------------------------ like request
\* permissions.AllowAny in place of IsAuthenticated: nobody is rejected
AllowAny(u) == TRUE

\* permission_classes=[permissions.IsAuthenticated] of the like actions
IsAuthenticated(u) == u # Anon

\* PostViewSet.like / CommentViewSet.like up to the call of toggle_like:
\* IsAuthenticated rejects an anonymous caller, get_object() answers 404 when
\* the row does not exist, otherwise the row is loaded into memory.
LikeRequest(p, u, it) ==
    /\ procs[p].pc = "idle"
    /\ Budget
    /\ IF ~IsAuthenticated(u)
       THEN /\ log' = Append(log, Response("like", u, it, 401, "unauthenticated",
                                           FALSE, 0, 0, Len(log)))
            /\ UNCHANGED procs
       ELSE IF ~items[it].exists
       THEN /\ log' = Append(log, Response("like", u, it, 404, "notfound",
                                           FALSE, 0, 0, Len(log)))
            /\ UNCHANGED procs
       ELSE /\ procs' = [procs EXCEPT ![p] =
                            [pc |-> "loaded", user |-> u, item |-> it,
                             author |-> items[it].author,
                             like_count |-> items[it].like_count,
                             ins |-> NoRow, cnt |-> NoCnt, seen |-> Len(log)]]
            /\ UNCHANGED log
    /\ UNCHANGED <<items, likes, nextId, now>>

\* toggle_like, the try block: Like.objects.create(...)
ToggleCreate(p) ==
    LET r == procs[p] IN
    /\ r.pc = "loaded"
    /\ ~KeyHeld(p, r.user, r.item)
    /\ IF UniqueViolation(r.user, r.item)
       THEN /\ procs' = [procs EXCEPT ![p].pc = "conflict"]
            /\ UNCHANGED nextId
       ELSE /\ procs' = [procs EXCEPT
                           ![p].pc = "inserted",
                           ![p].ins = [id |-> nextId, user |-> r.user,
                                       content_type |-> r.item.kind,
                                       object_id |-> r.item.id,
                                       content_author |-> r.author,
                                       karma_value |-> KarmaValue(r.item),
                                       created_at |-> now]]
            /\ nextId' = nextId + 1
    /\ UNCHANGED <<items, likes, now, log>>

\* toggle_like, the try block: content_object.like_count += 1 and
\* content_object.save(update_fields=['like_count'])
ToggleSaveCount(p) ==
    LET r == procs[p] IN
    /\ r.pc = "inserted"
    /\ ~RowLocked(p, r.item)
    /\ IF items[r.item].exists
       THEN /\ procs' = [procs EXCEPT ![p].pc = "updated",
                                      ![p].like_count = r.like_count + 1,
                                      ![p].cnt = r.like_count + 1]
            /\ UNCHANGED log
       ELSE \* the UPDATE matched no row: DatabaseError, the transaction rolls back
            /\ procs' = [procs EXCEPT ![p] = IdleProc]
            /\ log' = Append(log, Response("like", r.user, r.item, 500, "norow",
                                           FALSE, 0, 0, r.seen))
    /\ UNCHANGED <<items, likes, nextId, now>>

\* toggle_like returns (True, karma_value): the transaction commits both writes
\* and the view answers with the in-memory like_count
ToggleReturn(p) ==
    LET r == procs[p] IN
    /\ r.pc = "updated"
    /\ likes' = likes \cup {r.ins}
    /\ items' = [items EXCEPT ![r.item].like_count = r.cnt]
    /\ procs' = [procs EXCEPT ![p] = IdleProc]
    /\ log' = Append(log, Response("like", r.user, r.item, 200, "none",
                                   TRUE, KarmaValue(r.item), r.like_count, r.seen))
    /\ UNCHANGED <<nextId, now>>

\* the except block as it would run if the failed INSERT had been confined to
\* a savepoint: the row is deleted, the stale in-memory count is decremented
\* and written, and the transaction commits
ToggleExceptDeletes(p) ==
    LET r == procs[p] IN
    /\ r.pc = "conflict"
    /\ ~RowLocked(p, r.item)
    /\ items[r.item].exists
    /\ likes' = likes \ RowsOf(r.user, r.item)
    /\ items' = [items EXCEPT ![r.item].like_count = r.like_count - 1]
    /\ procs' = [procs EXCEPT ![p] = IdleProc]
    /\ log' = Append(log, Response("like", r.user, r.item, 200, "none",
                                   FALSE, -KarmaValue(r.item), r.like_count - 1,
                                   r.seen))
    /\ UNCHANGED <<nextId, now>>

\* toggle_like, the except IntegrityError block: the transaction is already
\* marked for rollback, so Like.objects.filter(...).delete() raises
\* TransactionManagementError; nothing is deleted, the view answers 500
ToggleExcept(p) ==
    LET r == procs[p] IN
    /\ r.pc = "conflict"
    /\ procs' = [procs EXCEPT ![p] = IdleProc]
    /\ log' = Append(log, Response("like", r.user, r.item, 500, "txbroken",
                                   FALSE, 0, 0, r.seen))
    /\ UNCHANGED <<items, likes, nextId, now>>

\* a database failure in a toggle_like without @transaction.atomic: each
\* statement commits on its own, so the inserted row outlives the failure
DbFailureAutocommit(p) ==
    LET r == procs[p] IN
    /\ r.pc \in {"inserted", "updated"}
    /\ likes' = likes \cup {r.ins}
    /\ procs' = [procs EXCEPT ![p] = IdleProc]
    /\ log' = Append(log, Response("like", r.user, r.item, 500, "storage",
                                   FALSE, 0, 0, r.seen))
    /\ UNCHANGED <<items, nextId, now>>

\* the database fails (connection lost, statement timeout) inside the atomic
\* block: the exception leaves toggle_like and the transaction rolls back
DbFailure(p) ==
    LET r == procs[p] IN
    /\ r.pc \in {"inserted", "updated"}
    /\ procs' = [procs EXCEPT ![p] = IdleProc]
    /\ log' = Append(log, Response("like", r.user, r.item, 500, "storage",
                                   FALSE, 0, 0, r.seen))
    /\ UNCHANGED <<items, likes, nextId, now>>

\* DELETE /api/posts/:id/ or /api/comments/:id/ (ModelViewSet.destroy): any
\* authenticated user; deleting a post cascades to its comments
\* (Comment.post on_delete=CASCADE); Like rows have no relation to the item
\* (GenericForeignKey) and stay.
Cascade(it) ==
    IF it.kind = "post"
    THEN {it} \cup {c \in Items : c.kind = "comment" /\ c.id = it.id}
    ELSE {it}

DestroyItem(u, it) ==
    /\ u \in Users
    /\ Budget
    /\ IF ~items[it].exists
       THEN /\ log' = Append(log, Response("destroy", u, it, 404, "notfound",
                                           FALSE, 0, 0, Len(log)))
            /\ UNCHANGED items
       ELSE /\ \A c \in Cascade(it) : ~RowLocked(0, c)
            /\ items' = [c \in Items |->
                           IF c \in Cascade(it)
                           THEN [items[c] EXCEPT !.exists = FALSE]
                           ELSE items[c]]
            /\ log' = Append(log, Response("destroy", u, it, 204, "none",
                                           FALSE, 0, 0, Len(log)))
    /\ UNCHANGED <<likes, nextId, now, procs>>

Next ==
    \/ \E p \in Procs, u \in Users \cup {Anon}, it \in Items : LikeRequest(p, u, it)
    \/ \E p \in Procs : ToggleCreate(p)
    \/ \E p \in Procs : ToggleSaveCount(p)
    \/ \E p \in Procs : ToggleReturn(p)
    \/ \E p \in Procs : ToggleExcept(p)
    \/ \E p \in Procs : DbFailure(p)
    \/ \E u \in Users, it \in Items : DestroyItem(u, it)

Spec == Init /\ [][Next]_vars

\* ------------------------------------------- create and update of items
\* a row that was never created: its primary key has not been issued yet
Unborn == [exists |-> FALSE, author |-> Anon, like_count |-> 0]

\* permission_classes = [permissions.IsAuthenticatedOrReadOnly] on an unsafe
\* method
IsAuthenticatedOrReadOnly(u) == u # Anon

\* the post a comment belongs to (comment n is a comment on post n)
PostOf(it) == [kind |-> "post", id |-> it.id]

\* POST /api/posts/ or /api/comments/ (ModelViewSet.create with
\* PostCreateSerializer / CommentCreateSerializer): the author is the request
\* user, like_count takes its default 0; primary keys are issued in order and
\* never reused; a comment needs an existing post.
CreateItem(u, it) ==
    /\ Budget
    /\ items[it].author = Anon
    /\ it.id > 1 => items[[kind |-> it.kind, id |-> it.id - 1]].author # Anon
    /\ IF ~IsAuthenticatedOrReadOnly(u)
       THEN /\ log' = Append(log, Response("create", u, it, 401, "unauthenticated",
                                           FALSE, 0, 0, Len(log)))
            /\ UNCHANGED items
       ELSE IF it.kind = "comment" /\ ~items[PostOf(it)].exists
       THEN /\ log' = Append(log, Response("create", u, it, 400, "invalid",
                                           FALSE, 0, 0, Len(log)))
            /\ UNCHANGED items
       ELSE /\ items' = [items EXCEPT ![it] =
                            [exists |-> TRUE, author |-> u, like_count |-> 0]]
            /\ log' = Append(log, Response("create", u, it, 201, "none",
                                           FALSE, 0, 0, Len(log)))
    /\ UNCHANGED <<likes, nextId, now, procs>>

\* PUT / PATCH /api/posts/:id/ or /api/comments/:id/ (ModelViewSet.update) up
\* to serializer.save(): permission check, then get_object() loads the row
UpdateRequest(p, u, it) ==
    /\ procs[p].pc = "idle"
    /\ Budget
    /\ IF ~IsAuthenticatedOrReadOnly(u)
       THEN /\ log' = Append(log, Response("update", u, it, 401, "unauthenticated",
                                           FALSE, 0, 0, Len(log)))
            /\ UNCHANGED procs
       ELSE IF ~items[it].exists
       THEN /\ log' = Append(log, Response("update", u, it, 404, "notfound",
                                           FALSE, 0, 0, Len(log)))
            /\ UNCHANGED procs
       ELSE /\ procs' = [procs EXCEPT ![p] =
                            [pc |-> "editing", user |-> u, item |-> it,
                             author |-> items[it].author,
                             like_count |-> items[it].like_count,
                             ins |-> NoRow, cnt |-> NoCnt, seen |-> Len(log)]]
            /\ UNCHANGED log
    /\ UNCHANGED <<items, likes, nextId, now>>

\* serializer.save() -> instance.save() (Comment.save for a comment): like_count
\* is read-only in the serializer, but save() has no update_fields, so the
\* UPDATE writes every column with the values loaded by get_object(); when the
\* UPDATE matches no row, save() INSERTs the row (a comment whose post is gone
\* fails on the foreign key).
UpdateSave(p) ==
    LET r == procs[p] IN
    /\ r.pc = "editing"
    /\ ~RowLocked(p, r.item)
    /\ IF r.item.kind = "comment" /\ ~items[r.item].exists
          /\ ~items[PostOf(r.item)].exists
       THEN /\ log' = Append(log, Response("update", r.user, r.item, 500, "integrity",
                                           FALSE, 0, 0, r.seen))
            /\ UNCHANGED items
       ELSE /\ items' = [items EXCEPT ![r.item] =
                            [exists |-> TRUE, author |-> r.author,
                             like_count |-> r.like_count]]
            /\ log' = Append(log, Response("update", r.user, r.item, 200, "none",
                                           FALSE, 0, r.like_count, r.seen))
    /\ procs' = [procs EXCEPT ![p] = IdleProc]
    /\ UNCHANGED <<likes, nextId, now>>

\* the posts exist; a comment exists or has not been written yet
InitCrud ==
    /\ items \in {f \in [Items -> {Unborn} \cup {InitItems[it] : it \in Items}] :
                     \A it \in Items :
                        /\ f[it] \in {Unborn, InitItems[it]}
                        /\ it.kind = "post" => f[it] = InitItems[it]
                        /\ (it.id > 1 /\ f[it] # Unborn)
                           => f[[kind |-> it.kind, id |-> it.id - 1]] # Unborn}
    /\ likes = {}
    /\ nextId = 1
    /\ now = 0
    /\ procs = [p \in Procs |-> IdleProc]
    /\ log = <<>>

NextCrud ==
    \/ Next
    \/ \E u \in Users \cup {Anon}, it \in Items : CreateItem(u, it)
    \/ \E p \in Procs, u \in Users \cup {Anon}, it \in Items : UpdateRequest(p, u, it)
    \/ \E p \in Procs : UpdateSave(p)

SpecCrud == InitCrud /\ [][NextCrud]_vars

\* ------------------------------------------------ karma and leaderboard
\* the rows karma_last_24h would sum if the comparison were exclusive (__gt)
Last24hRowsExclusive(u) ==
    {r \in likes : r.content_author = u /\ r.created_at > now - DAY}

\* the rows karma_last_24h would sum if the comparison were inverted (__lte)
RowsOlderThan24h(u) ==
    {r \in likes : r.content_author = u /\ r.created_at <= now - DAY}

\* the rows karma_last_24h would sum without its content_author=self filter
Last24hRowsAnyAuthor(u) ==
    {r \in likes : r.created_at >= now - DAY}

\* User.karma_last_24h, the filter: content_author=self,
\* created_at__gte=timezone.now() - timedelta(hours=24)
Last24hRows(u) ==
    {r \in likes : r.content_author = u /\ r.created_at >= now - DAY}

\* User.karma_last_24h: Sum('karma_value') over the filtered rows, or 0
karma_last_24h(u) == SumKarma(Last24hRows(u))

\* a leaderboard query without its filter: every user is a candidate
EveryUser == Users

\* get_top_users_24h: User.objects.filter(likes_received__created_at__gte=
\* time_threshold), the users with a like received in the last 24 hours
Qualifying ==
    {u \in Users : \E r \in likes : r.content_author = u /\ r.created_at >= now - DAY}

\* the annotation as it would be with its own join (annotate before filter):
\* the sum runs over every row the user received
SumOverAllReceived(u) == SumKarma({r \in likes : r.content_author = u})

\* get_top_users_24h: annotate(karma_24h=Sum('likes_received__karma_value')),
\* the sum runs over the rows joined by the filter
karma_24h(u) ==
    SumKarma({r \in likes : r.content_author = u /\ r.created_at >= now - DAY})

\* get_top_users_24h: order_by('-karma_24h') names no secondary key, so the
\* database may return users of equal karma in any order
Orderings ==
    {s \in [1..Cardinality(Qualifying) -> Qualifying] :
        /\ \A i, j \in DOMAIN s : i # j => s[i] # s[j]
        /\ \A i, j \in DOMAIN s : i < j => karma_24h(s[i]) >= karma_24h(s[j])}

Min(a, b) == IF a < b THEN a ELSE b

\* get_top_users_24h(limit): the results the query can produce ([:limit])
get_top_users_24h(limit) ==
    {[i \in 1..Min(limit, Len(s)) |-> [id |-> s[i], karma_24h |-> karma_24h(s[i])]] :
        s \in Orderings}

Limits == (1..NumUsers) \cup {DEFAULT_LIMIT}

\* the clock is sampled around the creation of the events and around the time
\* they are 24 hours old
Instants == (0..MaxSlack) \cup ((DAY - 1)..(DAY + MaxSlack + 1))

\* timezone.now() moves forward
Tick ==
    /\ \E t \in Instants : t > now /\ now' = t
    /\ UNCHANGED <<items, likes, nextId, procs, log>>

\* GET /api/leaderboard/ (LeaderboardView.get -> get_top_users_24h(limit))
LeaderboardRequest(limit) ==
    /\ Len(log) < MaxQueries
    /\ \E b \in get_top_users_24h(limit) :
          log' = Append(log, [op |-> "leaderboard", limit |-> limit,
                              at |-> now, board |-> b])
    /\ UNCHANGED <<items, likes, nextId, now, procs>>

\* GET /api/auth/me/ (CurrentUserView.get -> UserSerializer: total_karma and
\* karma_24h = obj.karma_last_24h())
CurrentUserRequest(u) ==
    /\ Len(log) < MaxQueries
    /\ log' = Append(log, [op |-> "me", user |-> u, at |-> now,
                           total_karma |-> total_karma(u),
                           karma_24h |-> karma_last_24h(u)])
    /\ UNCHANGED <<items, likes, nextId, now, procs>>

\* items that exist or existed: ids above MaxItemId are items deleted since
\* (their Like rows stay, see DestroyItem)
LikedItems == [kind : Kinds, id : 1..(MaxItemId + 1)]

\* the author of an item that was liked
AuthorOfLiked(it) ==
    IF it \in Items THEN InitAuthor(it)
    ELSE IF it.kind = "post" THEN NumUsers ELSE 1

\* the Like row toggle_like commits for user u on item it at time t
LikeRow(n, u, it, t) ==
    [id |-> n, user |-> u, content_type |-> it.kind, object_id |-> it.id,
     content_author |-> AuthorOfLiked(it), karma_value |-> KarmaValue(it),
     created_at |-> t]

\* a database holding up to MaxEvents like events given in the past, at most
\* one per (user, item); like_count as the toggles left it
InitClock ==
    /\ now \in 0..MaxSlack
    /\ \E n \in 0..MaxEvents :
          \E f \in [1..n -> Users \X LikedItems \X (0..MaxSlack)] :
             /\ \A i, j \in 1..n :
                   i # j => <<f[i][1], f[i][2]>> # <<f[j][1], f[j][2]>>
             /\ \A i, j \in 1..n : i < j => f[i][3] <= f[j][3]
             /\ \A i \in 1..n : f[i][3] <= now
             /\ likes = {LikeRow(i, f[i][1], f[i][2], f[i][3]) : i \in 1..n}
             /\ nextId = n + 1
    /\ items = [it \in Items |->
                  [InitItems[it] EXCEPT !.like_count = Cardinality(RowsOn(it))]]
    /\ procs = [p \in Procs |-> IdleProc]
    /\ log = <<>>

NextClock ==
    \/ Tick
    \/ \E k \in Limits : LeaderboardRequest(k)
    \/ \E u \in Users : CurrentUserRequest(u)

SpecClock == InitClock /\ [][NextClock]_vars

\* the clock keeps advancing
SpecClockFair == SpecClock /\ WF_vars(Tick)

\* ------------------------------------------------------------------ claims
Last(s) == s[Len(s)]

SameKey(r1, r2) ==
    /\ r1.user = r2.user
    /\ r1.content_type = r2.content_type
    /\ r1.object_id = r2.object_id

\* a like response that reports a toggle (not a storage failure)
LikeEntries == {i \in DOMAIN log : log[i].op = "like"}

\* C1: in every reachable state there is at most one live like event for each
\* (user, target kind, target id) triple, whatever the interleaving of toggles.
C1_UniqueLike == \A r1, r2 \in likes : SameKey(r1, r2) => r1 = r2

\* C1 witness: a toggle that ran concurrently with a committed like of the same
\* user on the same item had its INSERT rejected by the constraint.
C1_Witness ==
    \E p \in Procs :
        /\ procs[p].pc = "conflict"
        /\ \E i \in DOMAIN log :
              /\ i > procs[p].seen
              /\ log[i].status = 200
              /\ log[i].user = procs[p].user
              /\ log[i].item = procs[p].item
        /\ Cardinality(RowsOf(procs[p].user, procs[p].item)) = 1

\* C2: in every committed state the like_count of every post and comment equals
\* the number of live like events that reference it.
C2_CountMatchesEvents ==
    \A it \in Items :
        items[it].exists => items[it].like_count = Cardinality(RowsOn(it))

\* a step in which request p sends its response
Completes(p) == procs[p].pc # "idle" /\ procs'[p].pc = "idle"

\* no other toggle of the same (user, item) pair overlapped request p
Alone(p) ==
    /\ \A q \in Procs \ {p} :
          procs[q].pc = "idle"
          \/ procs[q].user # procs[p].user
          \/ procs[q].item # procs[p].item
    /\ \A i \in LikeEntries :
          i > procs[p].seen =>
              log[i].user # procs[p].user \/ log[i].item # procs[p].item

\* the Like row toggle_like(user, item) is to insert
IsNewRow(x, u, it) ==
    /\ x.user = u
    /\ x.content_type = it.kind
    /\ x.object_id = it.id
    /\ x.content_author = items[it].author
    /\ x.karma_value = KarmaValue(it)

\* C3: a toggle_like(user, item) with no concurrent toggle of the same pair
\* either inserts exactly one event (this user, this item, the item's author,
\* karma value v), raises like_count by exactly 1 and returns (True, +v), when
\* no live event existed, or deletes the live event, lowers like_count by
\* exactly 1 and returns (False, -v).  Storage failures and deleted items are
\* left out.
C3_ToggleExactlyOne ==
    [][\A p \in Procs :
          (Completes(p) /\ Alone(p) /\ Last(log').err \notin {"storage", "norow"})
          => LET u == procs[p].user
                 it == procs[p].item
                 v == KarmaValue(it)
                 resp == Last(log')
             IN IF RowsOf(u, it) = {}
                THEN /\ \E x \in likes' \ likes :
                           likes' = likes \cup {x} /\ IsNewRow(x, u, it)
                     /\ items'[it].like_count = items[it].like_count + 1
                     /\ resp.status = 200 /\ resp.is_liked
                     /\ resp.karma_change = v
                ELSE /\ likes' = likes \ RowsOf(u, it)
                     /\ items'[it].like_count = items[it].like_count - 1
                     /\ resp.status = 200 /\ ~resp.is_liked
                     /\ resp.karma_change = -v]_vars

\* exactly two requests were ever made, both like requests of one user on one
\* item, both answered, neither hit by a storage failure
TwoToggles ==
    /\ Len(log) = 2
    /\ InFlight = {}
    /\ \A i \in {1, 2} : log[i].op = "like" /\ log[i].err # "storage"
    /\ log[1].user \in Users
    /\ log[1].user = log[2].user
    /\ log[1].item = log[2].item

\* C4: two toggles by user U on item I issued one after the other, U not
\* having liked I, return (liked=true, +v) and then (liked=false, -v), and
\* afterwards the like_count, the live like events and the author's total
\* karma are what they were before the first toggle.
C4_TogglePairRestores ==
    (TwoToggles /\ log[2].seen = 1)
    => /\ log[1].status = 200 /\ log[1].is_liked
       /\ log[1].karma_change = KarmaValue(log[1].item)
       /\ log[2].status = 200 /\ ~log[2].is_liked
       /\ log[2].karma_change = -KarmaValue(log[1].item)
       /\ items = InitItems
       /\ likes = {}
       /\ total_karma(InitAuthor(log[1].item)) = 0

\* C5: two concurrent toggles by one user on one item are linearized; in
\* particular, when the user already likes the item (a first toggle liked it),
\* one of the two returns liked=false, the other liked=true, and the item
\* ends liked with its like_count unchanged.
C5_ConcurrentPairLinearized ==
    ( /\ Len(log) = 3
      /\ InFlight = {}
      /\ \A i \in 1..3 : log[i].op = "like" /\ log[i].err # "storage"
      /\ \A i \in 2..3 : log[i].user = log[1].user /\ log[i].item = log[1].item
      /\ log[1].user \in Users
      /\ log[1].status = 200 /\ log[1].is_liked
      /\ log[2].seen = 1 /\ log[3].seen = 1 )
    => /\ log[2].status = 200 /\ log[3].status = 200
       /\ log[2].is_liked # log[3].is_liked
       /\ Cardinality(RowsOf(log[1].user, log[1].item)) = 1
       /\ items[log[1].item].like_count = 1

\* C6: when two toggles by one user on one item start concurrently while no
\* live event exists for the pair, exactly one has its insert succeed and
\* returns liked=true, and the other observes that the like exists and
\* returns liked=false.
C6_OneInsertOneUnlike ==
    (TwoToggles /\ log[1].seen = 0 /\ log[2].seen = 0)
    => /\ log[1].status = 200 /\ log[2].status = 200
       /\ log[1].is_liked /\ ~log[2].is_liked

\* C7: the like_count of every post and every comment is non-negative in
\* every reachable state, under any interleaving of toggles.
C7_NonNegative == \A it \in Items : items[it].like_count >= 0

\* C7 witness: a toggle that loaded its item with like_count 0 met a live like
\* of its own user on that item (its INSERT was rejected).
C7_Witness ==
    \E p \in Procs : procs[p].pc = "conflict" /\ procs[p].like_count = 0

\* C8: a toggle is all-or-nothing: the live events and the counters change
\* only in the step that commits a toggle, and that step applies both the
\* event insert and the counter write; a toggle that fails leaves both as
\* they were.
C8_AllOrNothing ==
    [][(likes' # likes
        \/ \E it \in Items : items'[it].like_count # items[it].like_count
        \/ \E p \in Procs : Completes(p) /\ Last(log').status = 200)
       => \E p \in Procs :
             /\ Completes(p)
             /\ Last(log').status = 200
             /\ procs[p].ins \notin likes
             /\ likes' = likes \cup {procs[p].ins}
             /\ procs[p].cnt # NoCnt
             /\ items' = [items EXCEPT ![procs[p].item].like_count = procs[p].cnt]]_vars

\* C8 witness: the only request made so far inserted its event inside the
\* transaction and then failed; no event and no counter change is committed.
C8_Witness ==
    /\ Len(log) = 1
    /\ InFlight = {}
    /\ log[1].err = "storage"
    /\ nextId = 2
    /\ likes = {}
    /\ items = InitItems

\* C9: a uniqueness conflict is never surfaced to the caller: every toggle by
\* an authenticated user on an existing item, when the storage does not fail,
\* ends with a (liked, karmaDelta) result.
C9_ConflictAbsorbed ==
    \A i \in LikeEntries :
        (log[i].user \in Users /\ log[i].err \notin {"notfound", "storage", "norow"})
        => log[i].status = 200

\* C10: a toggle request on an item that does not exist, also one deleted
\* between the request's lookup and toggle_like's write, is answered with
\* not-found and changes no like event and no like_count.
C10_MissingItemNotFound ==
    [][( /\ Len(log') = Len(log) + 1
         /\ Last(log').op = "like"
         /\ Last(log').user \in Users
         /\ Last(log').err # "storage"
         /\ ~items[Last(log').item].exists )
       => /\ Last(log').status = 404
          /\ likes' = likes
          /\ items' = items]_vars

\* C11: a toggle request made without an authenticated user is rejected (401)
\* and leaves every like event and every like_count unchanged, for posts and
\* for comments; an anonymous caller never gets into toggle_like.
C11_AnonymousRejected ==
    [][/\ \A p \in Procs : procs'[p].pc # "idle" => procs'[p].user # Anon
       /\ (Len(log') = Len(log) + 1 /\ Last(log').op = "like"
           /\ Last(log').user = Anon)
          => /\ Last(log').status = 401
             /\ likes' = likes
             /\ items' = items
             /\ procs' = procs]_vars

\* C11 witness: an anonymous like request on a post and one on a comment were
\* both rejected.
C11_Witness ==
    \E i, j \in LikeEntries :
        /\ log[i].user = Anon /\ log[i].item.kind = "post" /\ log[i].status = 401
        /\ log[j].user = Anon /\ log[j].item.kind = "comment" /\ log[j].status = 401

\* C12: every live like event carries karma_value 5 when its target is a post
\* and 1 when it is a comment, and the karma change returned by the toggle
\* that created (or deleted) it has that magnitude.
C12_KarmaByKind ==
    /\ \A r \in likes :
          r.karma_value = (IF r.content_type = "post" THEN 5 ELSE 1)
    /\ \A i \in LikeEntries :
          log[i].status = 200 =>
              LET v == IF log[i].item.kind = "post" THEN 5 ELSE 1
              IN log[i].karma_change = (IF log[i].is_liked THEN v ELSE -v)

\* C12 witness: a like on a post and a like on a comment are both live.
C12_Witness ==
    \E r1, r2 \in likes : r1.content_type = "post" /\ r2.content_type = "comment"

RECURSIVE SumTotals(_)
SumTotals(U) ==
    IF U = {} THEN 0
    ELSE LET u == CHOOSE x \in U : TRUE IN total_karma(u) + SumTotals(U \ {u})

\* the item a Like row references
TargetOf(r) == [kind |-> r.content_type, id |-> r.object_id]

\* every request so far was a toggle of one user on one item, each issued
\* after the previous one was answered, none hit by a storage failure
SequentialToggles ==
    /\ Len(log) >= 1
    /\ InFlight = {}
    /\ \A i \in DOMAIN log :
          /\ log[i].op = "like"
          /\ log[i].err # "storage"
          /\ log[i].user = log[1].user
          /\ log[i].item = log[1].item
          /\ log[i].seen = i - 1
    /\ log[1].user \in Users

\* C13: total_karma(a) is 5 times the live likes on a's posts plus 1 times the
\* live likes on a's comments; the authors' totals add up to the karma_value
\* of all live events; and after N likes and M unlikes on one item (toggles
\* issued in sequence: like, unlike, like, ...) the author's total is
\* (N - M) times the item's karma value.
C13_KarmaConservation ==
    /\ \A a \in Users :
          total_karma(a) =
              5 * Cardinality({r \in likes : r.content_type = "post"
                                             /\ items[TargetOf(r)].author = a})
              + Cardinality({r \in likes : r.content_type = "comment"
                                           /\ items[TargetOf(r)].author = a})
    /\ SumTotals(Users) = SumKarma(likes)
    /\ SequentialToggles
       => total_karma(InitAuthor(log[1].item))
              = (Len(log) % 2) * KarmaValue(log[1].item)

RowsOnIn(L, it) == {r \in L : r.content_type = it.kind /\ r.object_id = it.id}

\* C18: likes on a post and on a comment are independent, also when they share
\* the numeric id: no step of a like request on one item changes another
\* item's like_count or like events, and a user's live like on post n does not
\* make that user's like on comment n conflict (and vice versa).
C18_CrossKindIndependent ==
    [][\A p \in Procs :
          /\ (procs[p].pc # "idle" /\ procs'[p] # procs[p])
             => \A it \in Items \ {procs[p].item} :
                   /\ items'[it] = items[it]
                   /\ RowsOnIn(likes', it) = RowsOnIn(likes, it)
          /\ (procs[p].pc = "loaded" /\ procs'[p].pc # "loaded")
             => (procs'[p].pc = "conflict"
                   <=> RowsOf(procs[p].user, procs[p].item) # {})]_vars

\* C18 witness: one user holds a live like on post n and on comment n, and the
\* two counters were raised separately.
C18_Witness ==
    \E u \in Users, n \in ItemIds :
        /\ RowsOf(u, [kind |-> "post", id |-> n]) # {}
        /\ RowsOf(u, [kind |-> "comment", id |-> n]) # {}
        /\ items[[kind |-> "post", id |-> n]].like_count = 1
        /\ items[[kind |-> "comment", id |-> n]].like_count = 1

\* C19: two concurrent toggles on different items, or by different users, are
\* independent: both return what they would return alone (from a state with
\* no likes: liked=true), and the final like events and like_counts are those
\* of running the two one after the other.
C19_IndependentToggles ==
    ( /\ Len(log) = 2
      /\ InFlight = {}
      /\ \A i \in {1, 2} :
            /\ log[i].op = "like"
            /\ log[i].user \in Users
            /\ log[i].err \notin {"storage", "norow", "notfound"}
            /\ log[i].seen = 0
      /\ (log[1].user # log[2].user \/ log[1].item # log[2].item) )
    => /\ \A i \in {1, 2} : log[i].status = 200 /\ log[i].is_liked
       /\ Cardinality(likes) = 2
       /\ \A it \in Items : items[it].like_count = Cardinality(RowsOn(it))

\* C20: like events and like_count fields change only in a toggle's commit:
\* no other API operation (create, PUT/PATCH, read, list) changes the
\* like_count of an existing item or any like event, also when it runs
\* concurrently with a toggle on the same item.
C20_OnlyToggleWrites ==
    [][(likes' # likes
        \/ \E it \in Items : /\ items[it].exists /\ items'[it].exists
                             /\ items'[it].like_count # items[it].like_count)
       => \E p \in Procs : /\ Completes(p)
                           /\ Last(log').op = "like"
                           /\ Last(log').status = 200]_vars

\* the sum of karma_value over the live events received by u whose age at
\* clock value t is at most 24 hours (1440 minutes)
KarmaAgedAtMostDay(u, t) ==
    SumKarma({r \in likes : r.content_author = u /\ t - r.created_at <= 1440})

MeEntries == {i \in DOMAIN log : log[i].op = "me"}
BoardEntries == {i \in DOMAIN log : log[i].op = "leaderboard"}

\* C14: karma_last_24h(u) at clock value now is the sum of karma_value over
\* the live events with content_author = u and created_at >= now - 24h, the
\* boundary included: an event aged 23h59m or exactly 24h counts, one aged
\* 24h1m does not, and the result is 0 when no event qualifies.
C14_WindowInclusive ==
    /\ \A u \in Users :
          /\ karma_last_24h(u) = KarmaAgedAtMostDay(u, now)
          /\ (\A r \in likes : r.content_author = u => now - r.created_at > 1440)
             => karma_last_24h(u) = 0
    /\ \A i \in MeEntries :
          log[i].karma_24h = KarmaAgedAtMostDay(log[i].user, log[i].at)

\* C14 witness: a user's profile was read while one of two events received was
\* exactly 24 hours old (counted) and the other 24h1m old (not counted).
C14_Witness ==
    \E i \in MeEntries : \E r1, r2 \in likes :
        /\ r1.content_author = log[i].user
        /\ r2.content_author = log[i].user
        /\ log[i].at - r1.created_at = 1440
        /\ log[i].at - r2.created_at = 1441
        /\ log[i].karma_24h = r1.karma_value

\* C15: the 24h window slides with the clock: while the clock advances and no
\* toggle occurs, every user's karma_last_24h does not increase and
\* total_karma does not change; a live event older than 24 hours does not
\* count and never counts again while it stays the same event; and every live
\* event eventually ages out.
C15_WindowSlides ==
    /\ [][(now' > now /\ likes' = likes)
          => \A u \in Users : /\ karma_last_24h(u)' <= karma_last_24h(u)
                              /\ total_karma(u)' = total_karma(u)]_vars
    /\ [][\A r \in likes :
             /\ now - r.created_at > 1440 => r \notin Last24hRows(r.content_author)
             /\ (r \notin Last24hRows(r.content_author) /\ r \in likes')
                => r \notin Last24hRows(r.content_author)']_vars
    /\ <>(\A u \in Users : karma_last_24h(u) = 0)

\* C15 witness: the clock has advanced, an event that counted when the clock
\* started has aged out, and the user's total karma still holds it.
C15_Witness ==
    \E r \in likes :
        /\ now - r.created_at > 1440
        /\ karma_last_24h(r.content_author) = 0
        /\ total_karma(r.content_author) >= r.karma_value

\* users with at least one live event received within 24 hours of clock value t
UsersInWindow(t) ==
    {u \in Users : \E r \in likes : r.content_author = u /\ t - r.created_at <= 1440}

\* what C16 asks of a result b of get_top_users_24h(k) evaluated at clock value t
GoodBoard(b, k, t) ==
    /\ Len(b) = Min(k, Cardinality(UsersInWindow(t)))
    /\ \A i, j \in DOMAIN b : i # j => b[i].id # b[j].id
    /\ \A i, j \in DOMAIN b :
          i < j => KarmaAgedAtMostDay(b[i].id, t) >= KarmaAgedAtMostDay(b[j].id, t)
    /\ \A i \in DOMAIN b : b[i].id \in UsersInWindow(t)
    /\ \A u \in Users \ {b[i].id : i \in DOMAIN b} :
          \A i \in DOMAIN b :
             KarmaAgedAtMostDay(u, t) <= KarmaAgedAtMostDay(b[i].id, t)

\* C16: get_top_users_24h(k) returns at most k users in descending order of
\* 24h karma; every returned user has a live event received within the last
\* 24 hours (a user with none is never returned); every user left out has 24h
\* karma at most that of every returned user.
C16_TopUsers ==
    /\ \A k \in Limits : \A b \in get_top_users_24h(k) : GoodBoard(b, k, now)
    /\ \A i \in BoardEntries : GoodBoard(log[i].board, log[i].limit, log[i].at)

\* C16 witness: a leaderboard of limit k was returned full while another user
\* with karma in the window was cut off, and a user without was left out.
C16_Witness ==
    \E i \in BoardEntries :
        /\ Len(log[i].board) = log[i].limit
        /\ Cardinality(UsersInWindow(log[i].at)) > log[i].limit
        /\ Len(log[i].board) >= 1

\* C17: ties on equal 24h karma are broken by a deterministic secondary key:
\* for a fixed set of live events and a fixed clock value every evaluation of
\* get_top_users_24h(k) returns the same ordered sequence.
C17_DeterministicTieBreak ==
    /\ \A i \in BoardEntries :
          log[i].at = now
          => \A b \in get_top_users_24h(log[i].limit) : b = log[i].board
    /\ \A i, j \in BoardEntries :
          (log[i].at = log[j].at /\ log[i].limit = log[j].limit)
          => log[i].board = log[j].board

\* C21: the grouped leaderboard aggregation agrees with the per-user
\* aggregate: at the same clock value and on the same live events, every row
\* get_top_users_24h returns carries karma_24h equal to that user's
\* karma_last_24h(), the sum over the events inside the 24h window only.
C21_GroupedAgreesWithPerUser ==
    /\ \A k \in Limits : \A b \in get_top_users_24h(k) : \A i \in DOMAIN b :
          b[i].karma_24h = karma_last_24h(b[i].id)
    /\ \A i \in BoardEntries : \A j \in DOMAIN log[i].board :
          log[i].board[j].karma_24h = KarmaAgedAtMostDay(log[i].board[j].id, log[i].at)

\* C21 witness: a leaderboard was returned with a user who has one event
\* inside the window and an older one outside, and the row carries the karma
\* of the event inside only.
C21_Witness ==
    \E i \in BoardEntries : \E j \in DOMAIN log[i].board : \E r1, r2 \in likes :
        /\ r1.content_author = log[i].board[j].id
        /\ r2.content_author = log[i].board[j].id
        /\ log[i].at - r1.created_at <= 1440
        /\ log[i].at - r2.created_at > 1440
        /\ log[i].board[j].karma_24h = r1.karma_value
        /\ log[i].at = now
        /\ karma_last_24h(log[i].board[j].id) = r1.karma_value

\* C23: in every reachable state and at every clock value, every user's 24h
\* karma lies between 0 and the user's total karma:
\* 0 <= karma_last_24h(u) <= total_karma(u).
C23_WindowWithinTotal ==
    \A u \in Users :
        /\ 0 <= karma_last_24h(u)
        /\ karma_last_24h(u) <= total_karma(u)

\* C23 witness: the clock has advanced past the 24h age of one of a user's two
\* events, so the user's 24h karma is positive and strictly below the total,
\* while another user's profile shows neither.
C23_Witness ==
    \E u \in Users : \E r1, r2 \in likes :
        /\ r1.content_author = u
        /\ r2.content_author = u
        /\ now - r1.created_at = 1440
        /\ now - r2.created_at = 1441
        /\ karma_last_24h(u) > 0
        /\ karma_last_24h(u) < total_karma(u)
        /\ \E v \in Users \ {u} : total_karma(v) = 0

\* the sum of the karma_change values of the responses log[i], i in S
RECURSIVE SumReported(_)
SumReported(S) ==
    IF S = {} THEN 0
    ELSE LET i == CHOOSE x \in S : TRUE IN log[i].karma_change + SumReported(S \ {i})

\* the toggles on items authored by a that returned to their caller
ReturnedTogglesOn(a) ==
    {i \in LikeEntries : log[i].status = 200 /\ InitAuthor(log[i].item) = a}

\* a user who likes an item (first response) toggled it twice more, the two
\* requests running concurrently, and both have ended
ConcurrentPairOnLiked ==
    /\ Len(log) = 3
    /\ InFlight = {}
    /\ \A i \in 1..3 : log[i].op = "like" /\ log[i].err # "storage"
    /\ \A i \in 2..3 : log[i].user = log[1].user /\ log[i].item = log[1].item
    /\ log[1].status = 200 /\ log[1].is_liked
    /\ log[2].seen = 1 /\ log[3].seen = 1

\* C22: the karma changes reported to callers account for the author's
\* karma: for every author a, under any interleaving, the karma_change values
\* returned by the toggles on a's items add up to total_karma(a) now minus
\* total_karma(a) at the start (0); and two concurrent toggles by one user on
\* an item they already like never both report a negative change.
C22_ReportedChangesAccount ==
    /\ \A a \in Users : SumReported(ReturnedTogglesOn(a)) = total_karma(a)
    /\ ConcurrentPairOnLiked
       => ~(log[2].karma_change < 0 /\ log[3].karma_change < 0)

\* C22 witness: a user liked an item (+v reported, the author's karma is v),
\* then toggled it twice concurrently, and both requests have ended.
C22_Witness ==
    /\ ConcurrentPairOnLiked
    /\ log[1].karma_change = KarmaValue(log[1].item)
    /\ total_karma(InitAuthor(log[1].item)) = KarmaValue(log[1].item)

\* C24: every live like event references an existing post or comment: after
\* any sequence of item creations, item deletions through the post/comment
\* API and toggles, no like event remains for a deleted item, so a deleted
\* item contributes nothing to its author's total_karma.
C24_NoLikesForDeletedItems ==
    /\ \A r \in likes : items[TargetOf(r)].exists
    /\ \A a \in Users :
          total_karma(a) =
             SumKarma({r \in likes : r.content_author = a /\ items[TargetOf(r)].exists})

====
